---- MODULE Spec2Model ----
(***************************************************************************)
(* Model of the phonetic transcription engine of wiktionary-dictionary:    *)
(* check_char (src/check_chars.py) over the inventory of src/assets.py,    *)
(* and the per-entry loop of check_chars.py's __main__ that calls it; and   *)
(* the page-counting loop of src/make_wikidict_online.py's __main__.       *)
(*                                                                         *)
(* A Python str is modelled as a sequence of one-character strings, so     *)
(* that strip, replace, re.sub and split act character by character as     *)
(* they do in the source.  A phone (an element of the list `phones`) is a  *)
(* sequence of one or two characters.                                      *)
(***************************************************************************)
EXTENDS Integers, Sequences, FiniteSets, TLC

VARIABLES
    arg,               \* the 'ipa' string check_char was called with
    entry,             \* entry['ipa'], replaced by entry.update at the end
    ipa_all,           \* the characters of the cleaned string (c[0] of each item)
    idx,               \* index of the item the for loop is at
    last_was_biphone,
    last_c,
    phones,
    starts,            \* history: for each item of phones, c[1] of its first character
    error,
    phones_str,        \* phones_str, phones_str1 .. phones_str7 in turn
    phones_str8,
    pc,                \* position in check_char
    word,              \* __main__: entry.get("word")
    sounds_in,         \* __main__: entry.get('sounds'), each item's ipa (or NoIpa)
    s_i,               \* __main__: index of the item the sounds loop is at
    sounds,            \* __main__: the list `sounds`
    entries,           \* __main__: the list `entries`
    mpc,               \* __main__: position in the per-entry code
    started,           \* make_wikidict_online: inside a page
    xml_lines,         \* make_wikidict_online: the lines of the page so far
    articles,          \* make_wikidict_online: pages closed so far
    active_jobs,       \* make_wikidict_online: the futures kept, each named by its page
    jobs,              \* history: the pages given to executor.submit, in order
    done,              \* the jobs whose future is done
    merged,            \* history: for each page, how often wiki_word_dict.update
                       \* was given the result of its job
    ppc                \* make_wikidict_online: position of the main loop

vars == <<arg, entry, ipa_all, idx, last_was_biphone, last_c, phones, starts, error,
          phones_str, phones_str8, pc,
          word, sounds_in, s_i, sounds, entries, mpc,
          started, xml_lines, articles, active_jobs, jobs, done, merged, ppc>>

engine_vars == <<arg, entry, ipa_all, idx, last_was_biphone, last_c, phones,
                 starts, error, phones_str, phones_str8, pc>>

main_vars == <<word, sounds_in, s_i, sounds, entries, mpc>>

pool_vars == <<started, xml_lines, articles, active_jobs, jobs, done, merged, ppc>>

-----------------------------------------------------------------------------
(***************************************************************************)
(* Characters.  Each character of the source is written as one ASCII atom: *)
(*   "I" ɪ   "U" ʊ   "@" ə   "O" ɔ   "E" ɛ   "A" ɑ   "3" ɜ   ":" ː        *)
(*   "{" æ   "6" ɐ   "Q" ɒ   "Z" ʒ   "S" ʃ   "D" ð   "T" θ   "N" ŋ        *)
(*   "R" ɹ   "'" ˈ   "," ˌ   "@r" ɚ  "_" the combining tie U+0361          *)
(*   "V" ʌ (not in the inventory)   "1" the digit 1                        *)
(* and the ASCII letters, "/", ".", "(", ")", "[" and " " as themselves.   *)
(* Atoms are only compared for equality.                                   *)
(***************************************************************************)

(* src/assets.py *)

DIPTHONGS ==
    { <<"a","I">>, <<"a","U">>, <<"e","I">>, <<"O","I">>,
      <<"@","U">>, <<"E","@">>, <<"I","@">>, <<"U","@">> }

LONG_VOWELS ==
    { <<"i",":">>, <<"u",":">>, <<"A",":">>, <<"O",":">>, <<"3",":">> }

SHORT_VOWELS == { "i", "U", "{", "6", "Q", "@", "E", "I" }

AFFRICATES == { <<"d","Z">>, <<"t","S">> }

CONSONANTS ==
    { "p", "b", "t", "d", "k", "g", "f", "v", "s", "z", "D", "T", "S", "Z",
      "m", "n", "N", "j", "l", "w", "R", "h", "'", "," }

REMOVE == { "_", "." }

-----------------------------------------------------------------------------
(* src/check_chars.py, module level *)

One(S) == { <<ch>> : ch \in S }

PHONEMES ==
    One(CONSONANTS) \cup AFFRICATES \cup One(SHORT_VOWELS)
        \cup LONG_VOWELS \cup DIPTHONGS

\* regex_phonemes.match(x) for a one-character x
regex_phonemes(ch) == <<ch>> \in PHONEMES

\* first_char_biphone.match(x) for a one-character x
first_char_biphone(ch) ==
    \E b \in AFFRICATES \cup LONG_VOWELS \cup DIPTHONGS : b[1] = ch

\* is_biphone.match(x) for a two-character x
is_biphone(a, b) == <<a, b>> \in AFFRICATES \cup LONG_VOWELS \cup DIPTHONGS

VOWELS == One(SHORT_VOWELS) \cup LONG_VOWELS \cup DIPTHONGS

\* the characters of the class [ˌˈ] in the patterns of check_char
STRESS == { ",", "'" }

\* what str.split() splits on, among the characters of the model
WHITESPACE == { " " }

-----------------------------------------------------------------------------
(* str operations, on sequences of characters *)

\* s.startswith(pat, p-1)
StartsAt(s, p, pat) ==
    /\ p + Len(pat) - 1 <= Len(s)
    /\ \A j \in 1..Len(pat) : s[p + j - 1] = pat[j]

\* s.replace(pat, rep), from position p on: leftmost, non-overlapping
RECURSIVE ReplaceFrom(_, _, _, _)
ReplaceFrom(s, p, pat, rep) ==
    IF p > Len(s) THEN << >>
    ELSE IF StartsAt(s, p, pat)
         THEN rep \o ReplaceFrom(s, p + Len(pat), pat, rep)
         ELSE <<s[p]>> \o ReplaceFrom(s, p + 1, pat, rep)

Replace(s, pat, rep) == ReplaceFrom(s, 1, pat, rep)

\* s.strip(chars)
RECURSIVE LStrip(_, _)
LStrip(s, chars) ==
    IF s # << >> /\ s[1] \in chars THEN LStrip(Tail(s), chars) ELSE s

RECURSIVE RStrip(_, _)
RStrip(s, chars) ==
    IF s # << >> /\ s[Len(s)] \in chars
    THEN RStrip(SubSeq(s, 1, Len(s) - 1), chars) ELSE s

Strip(s, chars) == RStrip(LStrip(s, chars), chars)

\* re.sub('[chars]', '', s)
RemoveChars(s, chars) == SelectSeq(s, LAMBDA ch : ch \notin chars)

\* set(s.split()): the maximal runs of non-whitespace characters
IsUnit(s, a, b) ==
    /\ a <= b
    /\ \A j \in a..b : s[j] \notin WHITESPACE
    /\ (a = 1 \/ s[a - 1] \in WHITESPACE)
    /\ (b = Len(s) \/ s[b + 1] \in WHITESPACE)

SplitSet(s) ==
    { SubSeq(s, a, b) : <<a, b>> \in
        { ab \in (1..Len(s)) \X (1..Len(s)) : IsUnit(s, ab[1], ab[2]) } }

\* ' '.join(l)
RECURSIVE Join(_)
Join(l) ==
    IF l = << >> THEN << >>
    ELSE IF Len(l) = 1 THEN l[1]
    ELSE l[1] \o <<" ">> \o Join(Tail(l))

-----------------------------------------------------------------------------
(* check_char, lines 78-83: the four cluster patterns                       *)
(*   ( |^)([ˌˈ]) CONS_OR_AFF{k times, each followed by a blank} (VOWELS)    *)

\* CONS_OR_AFF followed by a blank, at q: the number of characters
\* CONS_OR_AFF takes, 0 when it does not match.  The class alternative and
\* the affricate alternatives cannot both be followed by the blank.
ConsOrAff(s, q) ==
    IF q + 1 <= Len(s) /\ s[q] \in CONSONANTS /\ s[q + 1] = " " THEN 1
    ELSE IF /\ q + 2 <= Len(s)
            /\ <<s[q], s[q + 1]>> \in AFFRICATES
            /\ s[q + 2] = " " THEN 2
    ELSE 0

\* k times "CONS_OR_AFF blank" from q: the position after them, 0 when no match
RECURSIVE Cluster(_, _, _)
Cluster(s, q, k) ==
    IF k = 0 THEN q
    ELSE LET n == ConsOrAff(s, q)
         IN  IF n = 0 THEN 0 ELSE Cluster(s, q + n + 1, k - 1)

\* a vowel group of the two-character vowels only
VowelLenLong(s, q) ==
    IF q + 1 <= Len(s) /\ <<s[q], s[q + 1]>> \in VOWELS THEN 2 ELSE 0

\* ('|'.join(VOWELS)) at q: the number of characters taken, 0 when no
\* alternative matches.  The order of the alternatives is the iteration order
\* of a set; when a short vowel and a two-character vowel both match, the two
\* choices end one character apart, the replacement ends with this group, and
\* the character between is no blank, so the result of re.sub is the same.
VowelLen(s, q) ==
    IF q + 1 <= Len(s) /\ <<s[q], s[q + 1]>> \in VOWELS THEN 2
    ELSE IF q <= Len(s) /\ <<s[q]>> \in VOWELS THEN 1
    ELSE 0

\* position of the stress marker of a match that starts at p, 0 when ( |^)
\* does not match there
MarkerPos(s, p) ==
    IF s[p] = " " THEN p + 1 ELSE IF p = 1 THEN p ELSE 0

\* the pattern with k clusters matched at p: <<marker, vowel start, end>>
\* (end is the position after the match), <<0, 0, 0>> when it does not match
Match(s, p, k) ==
    LET m == MarkerPos(s, p)
        v == IF m # 0 /\ m + 1 <= Len(s) /\ s[m] \in STRESS /\ s[m + 1] = " "
             THEN Cluster(s, m + 2, k) ELSE 0
        n == IF v # 0 THEN VowelLen(s, v) ELSE 0
    IN  IF n = 0 THEN <<0, 0, 0>> ELSE <<m, v, v + n>>

\* the replacement r"\1\3 ... \2\last" of a match mt that starts at p
Replacement(s, p, mt) ==
    SubSeq(s, p, mt[1] - 1) \o SubSeq(s, mt[1] + 2, mt[2] - 1)
        \o <<s[mt[1]]>> \o SubSeq(s, mt[2], mt[3] - 1)

\* re.sub(pattern with k clusters, replacement, s), from position p on
RECURSIVE SubFrom(_, _, _)
SubFrom(s, p, k) ==
    IF p > Len(s) THEN << >>
    ELSE LET mt == Match(s, p, k)
         IN  IF mt[1] = 0 THEN <<s[p]>> \o SubFrom(s, p + 1, k)
             ELSE Replacement(s, p, mt) \o SubFrom(s, mt[3], k)

SubCluster(s, k) == SubFrom(s, 1, k)

-----------------------------------------------------------------------------
(* check_char *)

NoChar == "None"

\* the cleaning without strip('/')
CleanIpaNoStrip(raw) ==
    Replace(Replace(Replace(raw, <<".">>, << >>),
                    <<"(", "R", ")">>, << >>),
            <<"(", "@", ")">>, << >>)

\* lines 48-49: strip('/'), then the three replace calls
CleanIpa(raw) ==
    Replace(Replace(Replace(Strip(raw, {"/"}), <<".">>, << >>),
                    <<"(", "R", ")">>, << >>),
            <<"(", "@", ")">>, << >>)

\* line 59: c[0].replace("ɚ", "ə")
Fold(ch) == IF ch = "@r" THEN "@" ELSE ch

\* the guard with the final item folded before the comparison
OpensBiphoneFoldedLast(all, ch) ==
    first_char_biphone(ch) /\ Fold(all[Len(all)]) # ch

\* the guard without the comparison with the final item
OpensBiphoneAnywhere(all, ch) == first_char_biphone(ch)

\* line 70: the guard of the elif, on the folded character ch; ipa_all[-1][0]
\* is read from the list as it is now (items before idx folded, the rest not)
OpensBiphone(all, ch) == first_char_biphone(ch) /\ all[Len(all)] # ch

\* check_char touches nothing of its caller
Caller == UNCHANGED <<main_vars, pool_vars>>

\* lines 46-56.  The assignment of line 47 is overwritten by line 56.
Clean ==
    /\ pc = "call"
    /\ ipa_all' = CleanIpa(entry.ipa)
    /\ idx' = 1
    /\ last_was_biphone' = FALSE
    /\ last_c' = NoChar
    /\ phones' = << >>
    /\ starts' = << >>
    /\ error' = FALSE
    /\ pc' = "scan"
    /\ UNCHANGED <<arg, entry, phones_str, phones_str8>>
    /\ Caller

\* lines 58-59: the item the loop is at, folded in place
Cur == Fold(ipa_all[idx])
Folded == [ipa_all EXCEPT ![idx] = Cur]

InLoop == pc = "scan" /\ idx <= Len(ipa_all)

\* lines 58-59 and 74, common to every pass of the loop body
ScanItem ==
    /\ ipa_all' = Folded
    /\ last_c' = Cur
    /\ idx' = idx + 1
    /\ UNCHANGED <<arg, entry, phones_str, phones_str8, pc>>
    /\ Caller

\* lines 61-64
ScanMerge ==
    /\ InLoop
    /\ last_was_biphone
    /\ is_biphone(last_c, Cur)
    /\ last_was_biphone' = FALSE
    /\ phones' = Append(phones, <<last_c, Cur>>)
    /\ starts' = Append(starts, idx - 1)
    /\ UNCHANGED error
    /\ ScanItem

\* lines 61-62, 65-67
ScanSplit ==
    /\ InLoop
    /\ last_was_biphone
    /\ ~is_biphone(last_c, Cur)
    /\ regex_phonemes(Cur)
    /\ last_was_biphone' = FALSE
    /\ phones' = phones \o << <<last_c>>, <<Cur>> >>
    /\ starts' = starts \o <<idx - 1, idx>>
    /\ UNCHANGED error
    /\ ScanItem

\* the pass of lines 68-69 without the assignment to error
ScanErrorSilent ==
    /\ InLoop
    /\ last_was_biphone
    /\ ~is_biphone(last_c, Cur)
    /\ ~regex_phonemes(Cur)
    /\ last_was_biphone' = FALSE
    /\ UNCHANGED <<phones, starts, error>>
    /\ ScanItem

\* lines 61-62, 68-69
ScanError ==
    /\ InLoop
    /\ last_was_biphone
    /\ ~is_biphone(last_c, Cur)
    /\ ~regex_phonemes(Cur)
    /\ last_was_biphone' = FALSE
    /\ error' = TRUE
    /\ UNCHANGED <<phones, starts>>
    /\ ScanItem

\* lines 70-71
ScanOpen ==
    /\ InLoop
    /\ ~last_was_biphone
    /\ OpensBiphone(Folded, Cur)
    /\ last_was_biphone' = TRUE
    /\ UNCHANGED <<phones, starts, error>>
    /\ ScanItem

\* lines 72-73
ScanEmit ==
    /\ InLoop
    /\ ~last_was_biphone
    /\ ~OpensBiphone(Folded, Cur)
    /\ phones' = Append(phones, <<Cur>>)
    /\ starts' = Append(starts, idx)
    /\ UNCHANGED <<last_was_biphone, error>>
    /\ ScanItem

\* line 76, when the loop is over
JoinPhones ==
    /\ pc = "scan"
    /\ idx > Len(ipa_all)
    /\ phones_str' = Join(phones)
    /\ pc' = "sub4"
    /\ UNCHANGED <<arg, entry, ipa_all, idx, last_was_biphone, last_c, phones,
                   starts, error, phones_str8>>
    /\ Caller

Stage(from, to, str) ==
    /\ pc = from
    /\ phones_str' = str
    /\ pc' = to
    /\ UNCHANGED <<arg, entry, ipa_all, idx, last_was_biphone, last_c, phones,
                   starts, error, phones_str8>>
    /\ Caller

\* lines 80-83
Sub4 == Stage("sub4", "sub3", SubCluster(phones_str, 4))
Sub3 == Stage("sub3", "sub2", SubCluster(phones_str, 3))
Sub2 == Stage("sub2", "sub1", SubCluster(phones_str, 2))
Sub1 == Stage("sub1", "strip", SubCluster(phones_str, 1))

\* line 84
StripBlanks(str) == Replace(Strip(str, {" "}), <<" ", " ">>, <<" ">>)
Strip5 == Stage("strip", "remove", StripBlanks(phones_str))

\* line 85
Remove6 == Stage("remove", "fuse", RemoveChars(phones_str, REMOVE))

\* line 86
FuseStress(str) ==
    Replace(Replace(str, <<",", " ">>, <<",">>), <<"'", " ">>, <<"'">>)
Fuse7 == Stage("fuse", "merge", FuseStress(phones_str))

\* line 87: phones_str8 is computed here and read nowhere
MergeAffricates(str) ==
    Replace(Replace(str, <<"d", " ", "Z">>, <<"d", "Z">>),
            <<"t", " ", "S">>, <<"t", "S">>)
Merge8 ==
    /\ pc = "merge"
    /\ phones_str8' = MergeAffricates(phones_str)
    /\ pc' = "final"
    /\ UNCHANGED <<arg, entry, ipa_all, idx, last_was_biphone, last_c, phones,
                   starts, error, phones_str>>
    /\ Caller

\* a final check that is content with one recognised unit
final_check_any(str7) ==
    LET units == SplitSet(RemoveChars(str7, STRESS))
    IN  units = {} \/ (PHONEMES \cap units) # {}

\* lines 89-96, on phones_str7
final_check(str7) ==
    LET units == SplitSet(RemoveChars(str7, STRESS))
    IN  (PHONEMES \cap units) = units

\* a final check whose outcome replaces the flag of the scan
FinalCheckOverwrite ==
    /\ pc = "final"
    /\ error' = ~final_check(phones_str)
    /\ pc' = "update"
    /\ UNCHANGED <<arg, entry, ipa_all, idx, last_was_biphone, last_c, phones,
                   starts, phones_str, phones_str8>>
    /\ Caller

\* lines 98-99
FinalCheck ==
    /\ pc = "final"
    /\ error' = (error \/ ~final_check(phones_str))
    /\ pc' = "update"
    /\ UNCHANGED <<arg, entry, ipa_all, idx, last_was_biphone, last_c, phones,
                   starts, phones_str, phones_str8>>
    /\ Caller

\* line 101: the string put into the entry
Returned(str7, str8) == str7

\* lines 101-102
Return ==
    /\ pc = "update"
    /\ entry' = [entry EXCEPT !.ipa = Returned(phones_str, phones_str8)]
    /\ pc' = "done"
    /\ UNCHANGED <<arg, ipa_all, idx, last_was_biphone, last_c, phones,
                   starts, error, phones_str, phones_str8>>
    /\ Caller

Engine ==
    \/ Clean
    \/ ScanMerge \/ ScanSplit \/ ScanError \/ ScanOpen \/ ScanEmit
    \/ JoinPhones
    \/ Sub4 \/ Sub3 \/ Sub2 \/ Sub1
    \/ Strip5 \/ Remove6 \/ Fuse7 \/ Merge8
    \/ FinalCheck
    \/ Return

-----------------------------------------------------------------------------
(* check_char as a function of its argument: the same lines, run to the end *)

\* lines 58-74 from item i on; st holds the loop's variables
RECURSIVE ScanFrom(_, _, _)
ScanFrom(all, i, st) ==
    IF i > Len(all) THEN st
    ELSE
      LET ch == Fold(all[i])
          all1 == [all EXCEPT ![i] = ch]
          st1 ==
            IF st.last_was_biphone
            THEN IF is_biphone(st.last_c, ch)
                 THEN [st EXCEPT !.last_was_biphone = FALSE,
                                 !.phones = Append(@, <<st.last_c, ch>>)]
                 ELSE IF regex_phonemes(ch)
                 THEN [st EXCEPT !.last_was_biphone = FALSE,
                                 !.phones = @ \o << <<st.last_c>>, <<ch>> >>]
                 ELSE [st EXCEPT !.last_was_biphone = FALSE, !.error = TRUE]
            ELSE IF OpensBiphone(all1, ch)
                 THEN [st EXCEPT !.last_was_biphone = TRUE]
                 ELSE [st EXCEPT !.phones = Append(@, <<ch>>)]
      IN  ScanFrom(all1, i + 1, [st1 EXCEPT !.last_c = ch])

\* lines 51-76
Tokenize(ipa) ==
    ScanFrom(ipa, 1, [last_was_biphone |-> FALSE, last_c |-> NoChar,
                      phones |-> << >>, error |-> FALSE])

\* lines 80-86
Reposition(str) ==
    FuseStress(RemoveChars(StripBlanks(
        SubCluster(SubCluster(SubCluster(SubCluster(str, 4), 3), 2), 1)),
        REMOVE))

\* lines 45-102: the pair check_char returns
check_char(raw) ==
    LET t == Tokenize(CleanIpa(raw))
        str7 == Reposition(Join(t.phones))
        str8 == MergeAffricates(str7)
    IN  [error |-> (t.error \/ ~final_check(str7)),
         ipa |-> Returned(str7, str8)]

-----------------------------------------------------------------------------
(* The inputs of the model *)

MaxLen == 4
MaxStressLen == 6

\* t, ʃ, ə, ʊ, ɚ, ˈ, the digit 1 and the blank
Sigma == { "t", "S", "@", "U", "@r", "'", "1", " " }

\* ˈ, n, i
StressSigma == { "'", "n", "i" }

SeqsUpTo(S, n) == UNION { [1..m -> S] : m \in 0..n }

Literals ==
    { <<"/", "t", "S", "e", "I", "n", "/">>,
      <<"'", "s", "t", "r", "V", "k", "S", "@", "n">>,
      <<"'", "s", "t", "R", "6", "k", "S", "@", "n">>,
      <<"'", "t", "S", "@", "U", "n">>,
      <<"d", "t", "S", "@">>,
      <<"t", "_", "S", "I", "n">>,
      <<"[", "n", ".", "@", "(", "R", ")">>,
      <<"a", "I", "(", "@", ")", "n">> }

Inputs ==
    SeqsUpTo(Sigma, MaxLen) \cup SeqsUpTo(StressSigma, MaxStressLen)
        \cup Literals

\* a call check_char({'ipa': a, ...})
Call(a) ==
    /\ arg = a
    /\ entry = [ipa |-> a]
    /\ ipa_all = << >>
    /\ idx = 1
    /\ last_was_biphone = FALSE
    /\ last_c = NoChar
    /\ phones = << >>
    /\ starts = << >>
    /\ error = FALSE
    /\ phones_str = << >>
    /\ phones_str8 = << >>
    /\ pc = "call"

NoMain ==
    /\ word = << >>
    /\ sounds_in = << >>
    /\ s_i = 1
    /\ sounds = << >>
    /\ entries = << >>
    /\ mpc = "none"

\* make_wikidict_online.py is not running
NoPool ==
    /\ started = FALSE
    /\ xml_lines = << >>
    /\ articles = 0
    /\ active_jobs = << >>
    /\ jobs = << >>
    /\ done = {}
    /\ merged = << >>
    /\ ppc = "none"

Init ==
    /\ \E a \in Inputs : Call(a)
    /\ NoMain
    /\ NoPool

Next == Engine

Spec == Init /\ [][Next]_vars

\* the engine's steps end with what check_char, as a function, gives
EngineAgrees ==
    pc = "done" => [error |-> error, ipa |-> entry.ipa] = check_char(arg)

-----------------------------------------------------------------------------
(* check_chars.py __main__, lines 120-157: one line of the input, a record  *)
(* with a word, a list of sounds and senses.  An item of sounds_in is        *)
(* [ipa, tags]; tags is the item's position in the list.                     *)

NoIpa == <<"None">>

LETTERS == { "a" }
PUNCT == { "-", ".", "'" }

\* line 129: re.match("^[a-zA-Z]*[-.']*[a-zA-Z]+$", word)
WordShape(w) ==
    \E i \in 0..Len(w) : \E j \in i..(Len(w) - 1) :
        /\ \A x \in 1..i : w[x] \in LETTERS
        /\ \A x \in (i + 1)..j : w[x] \in PUNCT
        /\ \A x \in (j + 1)..Len(w) : w[x] \in LETTERS

\* line 134: s.get('ipa') is truthy
HasIpa(v) == v.ipa # NoIpa /\ v.ipa # << >>

Idle == UNCHANGED <<engine_vars, pool_vars>>

\* lines 129-130: the word fails the test, the line is dropped
SkipEntry ==
    /\ mpc = "line"
    /\ ~WordShape(word)
    /\ mpc' = "skipped"
    /\ UNCHANGED <<word, sounds_in, s_i, sounds, entries>>
    /\ Idle

\* lines 129-133: the word passes, the loop over the sounds starts
StartEntry ==
    /\ mpc = "line"
    /\ WordShape(word)
    /\ sounds' = << >>
    /\ s_i' = 1
    /\ mpc' = "loop"
    /\ UNCHANGED <<word, sounds_in, entries>>
    /\ Idle

\* lines 133-134: an item without ipa
SkipNoIpa ==
    /\ mpc = "loop"
    /\ s_i <= Len(sounds_in)
    /\ ~HasIpa(sounds_in[s_i])
    /\ s_i' = s_i + 1
    /\ UNCHANGED <<word, sounds_in, sounds, entries, mpc>>
    /\ Idle

\* lines 133-140, 143-144: check_char accepts the item
Accept ==
    /\ mpc = "loop"
    /\ s_i <= Len(sounds_in)
    /\ HasIpa(sounds_in[s_i])
    /\ ~check_char(sounds_in[s_i].ipa).error
    /\ sounds' = Append(sounds, [ipa |-> check_char(sounds_in[s_i].ipa).ipa,
                                 tags |-> sounds_in[s_i].tags])
    /\ s_i' = s_i + 1
    /\ UNCHANGED <<word, sounds_in, entries, mpc>>
    /\ Idle

\* a rejected item that is passed over, the loop going on
RejectContinue ==
    /\ mpc = "loop"
    /\ s_i <= Len(sounds_in)
    /\ HasIpa(sounds_in[s_i])
    /\ check_char(sounds_in[s_i].ipa).error
    /\ s_i' = s_i + 1
    /\ UNCHANGED <<word, sounds_in, sounds, entries, mpc>>
    /\ Idle

\* lines 133-142: check_char rejects the item, break
Reject ==
    /\ mpc = "loop"
    /\ s_i <= Len(sounds_in)
    /\ HasIpa(sounds_in[s_i])
    /\ check_char(sounds_in[s_i].ipa).error
    /\ mpc' = "senses"
    /\ UNCHANGED <<word, sounds_in, s_i, sounds, entries>>
    /\ Idle

\* line 133: the list is exhausted
EndSounds ==
    /\ mpc = "loop"
    /\ s_i > Len(sounds_in)
    /\ mpc' = "senses"
    /\ UNCHANGED <<word, sounds_in, s_i, sounds, entries>>
    /\ Idle

\* lines 145-155: the senses are cleaned (they touch no sound), the entry
\* gets the list `sounds` and is appended to `entries`
AppendEntry ==
    /\ mpc = "senses"
    /\ entries' = Append(entries, [word |-> word, sounds |-> sounds])
    /\ mpc' = "appended"
    /\ UNCHANGED <<word, sounds_in, s_i, sounds>>
    /\ Idle

MaxWordLen == 2
MaxVariants == 3

WordSigma == { "a", "-", " " }

\* None and the empty string carry no transcription; tʃ and ʃt are
\* accepted, the digit 1 is rejected
IpaPool == { NoIpa, << >>, <<"t", "S">>, <<"S", "t">>, <<"1">> }

SoundLists ==
    UNION { { [j \in 1..m |-> [ipa |-> f[j], tags |-> j]] : f \in [1..m -> IpaPool] }
            : m \in 0..MaxVariants }

InitMain ==
    /\ word \in SeqsUpTo(WordSigma, MaxWordLen)
    /\ sounds_in \in SoundLists
    /\ s_i = 1
    /\ sounds = << >>
    /\ entries = << >>
    /\ mpc = "line"
    /\ Call(<< >>)
    /\ NoPool

NextMain ==
    \/ SkipEntry
    \/ StartEntry
    \/ SkipNoIpa
    \/ Accept
    \/ Reject
    \/ EndSounds
    \/ AppendEntry

SpecMain == InitMain /\ [][NextMain]_vars

-----------------------------------------------------------------------------
(***************************************************************************)
(* The main loop of src/make_wikidict_online.py (lines 320-360): the pages *)
(* of the dump are read line by line, and the words of each page are       *)
(* counted by a job of a process pool.  A future is named by the number of *)
(* its page (articles at the time of the submit), and its result, a        *)
(* Counter, is taken as one whole.  The dump is well formed: pages do not  *)
(* nest and the file ends outside of a page.  The line counter and the     *)
(* periodic dump of lines 362-370 are left out, so a line outside of a     *)
(* page changes nothing and is no step.  A pass of the loop is one step;   *)
(* a job that becomes done while line 350 looks at the futures gives the   *)
(* state of the same pass with that job becoming done just after it.       *)
(***************************************************************************)

\* line 315
concurrent_tasks == 16

\* the pages of the dump, and the lines between the two tags of a page
MaxPages == 17
MaxText == 1

\* the loop touches nothing of check_chars.py
Apart == UNCHANGED <<engine_vars, main_vars>>

\* lines 320-326
InitPool ==
    /\ started = FALSE
    /\ xml_lines = << >>
    /\ articles = 0
    /\ active_jobs = << >>
    /\ jobs = << >>
    /\ done = {}
    /\ merged = [p \in 1..MaxPages |-> 0]
    /\ ppc = "loop"
    /\ Call(<< >>)
    /\ NoMain

\* lines 336-339: a line with <page>
ReadOpen ==
    /\ ppc = "loop"
    /\ ~started
    /\ articles < MaxPages
    /\ started' = TRUE
    /\ xml_lines' = Append(xml_lines, "<page>")
    /\ UNCHANGED <<articles, active_jobs, jobs, done, merged, ppc>>
    /\ Apart

\* lines 356-357: a line inside a page
ReadText ==
    /\ ppc = "loop"
    /\ started
    /\ Len(xml_lines) <= MaxText
    /\ xml_lines' = Append(xml_lines, "text")
    /\ UNCHANGED <<started, articles, active_jobs, jobs, done, merged, ppc>>
    /\ Apart

\* line 340: a line with </page>
AtClose == ppc = "loop" /\ started

\* lines 341-344 and 355, common to every pass that reads a closing line
ClosePage ==
    /\ articles' = articles + 1
    /\ started' = FALSE
    /\ xml_lines' = << >>
    /\ UNCHANGED <<done, ppc>>
    /\ Apart

\* lines 345-346
Submit ==
    /\ AtClose
    /\ Len(active_jobs) < concurrent_tasks
    /\ active_jobs' = Append(active_jobs, articles + 1)
    /\ jobs' = Append(jobs, articles + 1)
    /\ UNCHANGED merged
    /\ ClosePage

\* line 353: active_jobs.pop(i)
Pop(l, i) == SubSeq(l, 1, i - 1) \o SubSeq(l, i + 1, Len(l))

\* lines 349-352: the first future that is done
FirstDone ==
    CHOOSE i \in DOMAIN active_jobs :
        /\ active_jobs[i] \in done
        /\ \A k \in 1..(i - 1) : active_jobs[k] \notin done

\* lines 347-354 when a future is done: its result is merged and it is popped
ReapDone ==
    /\ AtClose
    /\ Len(active_jobs) = concurrent_tasks
    /\ \E i \in DOMAIN active_jobs : active_jobs[i] \in done
    /\ merged' = [merged EXCEPT ![active_jobs[FirstDone]] = @ + 1]
    /\ active_jobs' = Pop(active_jobs, FirstDone)
    /\ UNCHANGED jobs
    /\ ClosePage

\* lines 347-354 when no future is done: the for loop ends without break
\* and leaves active_job_idx at the last index, which line 353 pops
ReapNone ==
    /\ AtClose
    /\ Len(active_jobs) = concurrent_tasks
    /\ \A i \in DOMAIN active_jobs : active_jobs[i] \notin done
    /\ active_jobs' = Pop(active_jobs, Len(active_jobs))
    /\ UNCHANGED <<jobs, merged>>
    /\ ClosePage

\* line 328, when the loop is left: the with statement shuts the pool down
\* and waits for every job that was submitted; nothing follows it
LeaveLoop ==
    /\ done' = { jobs[n] : n \in DOMAIN jobs }
    /\ ppc' = "end"
    /\ UNCHANGED <<started, xml_lines, articles, active_jobs, jobs, merged>>
    /\ Apart

\* lines 331 and 359-360: readline gives b'' at the end of the file
ReadEof ==
    /\ ppc = "loop"
    /\ ~started
    /\ LeaveLoop

\* lines 333-335: readline raises, inside a page
ReadError ==
    /\ ppc = "loop"
    /\ started
    /\ LeaveLoop

\* line 328: the pool runs at most concurrent_tasks jobs at a time, in the
\* order of their submission; n is the place of a job in that order
Running(n) ==
    /\ jobs[n] \notin done
    /\ Cardinality({ k \in 1..(n - 1) : jobs[k] \notin done }) < concurrent_tasks

\* lines 296-307: a worker returns from _job, at any time while the loop runs
JobDone ==
    /\ ppc = "loop"
    /\ \E n \in DOMAIN jobs :
          /\ Running(n)
          /\ done' = done \cup {jobs[n]}
    /\ UNCHANGED <<started, xml_lines, articles, active_jobs, jobs, merged, ppc>>
    /\ Apart

NextPool ==
    \/ ReadOpen
    \/ ReadText
    \/ Submit
    \/ ReapDone
    \/ ReapNone
    \/ ReadEof
    \/ ReadError
    \/ JobDone

SpecPool == InitPool /\ [][NextPool]_vars

-----------------------------------------------------------------------------
(* Properties of check_char *)

Inventory ==
    One(CONSONANTS) \cup AFFRICATES \cup One(SHORT_VOWELS)
        \cup LONG_VOWELS \cup DIPTHONGS

\* the whitespace-delimited units of a string, stress markers removed
UnitsOf(str) == SplitSet(RemoveChars(str, STRESS))

\* C1: Alphabet closure.  When check_char returns with error = false, every
\* whitespace-delimited unit of the string it put into the entry, with the
\* stress markers removed, is a consonant, an affricate, a short vowel, a long
\* vowel or a diphthong.
AlphabetClosure ==
    (pc = "done" /\ ~error) => \A u \in UnitsOf(entry.ipa) : u \in Inventory

\* a call that returned without error a string of several units, one of them
\* carrying a stress marker
AlphabetClosureWitness ==
    /\ pc = "done"
    /\ ~error
    /\ Cardinality(UnitsOf(entry.ipa)) >= 2
    /\ \E j \in DOMAIN entry.ipa : entry.ipa[j] \in STRESS

Chain == <<"/", "t", "S", "e", "I", "n", "/">>

\* C7: Literal scenario.  check_char on /tʃeɪn/ returns error = false and the
\* string 'tʃ eɪ n': three phones, the affricate tʃ, the diphthong eɪ and the
\* consonant n.
LiteralChain ==
    (pc = "done" /\ arg = Chain) =>
        /\ ~error
        /\ entry.ipa = <<"t", "S", " ", "e", "I", " ", "n">>
        /\ phones = << <<"t", "S">>, <<"e", "I">>, <<"n">> >>
        /\ phones[1] \in AFFRICATES
        /\ phones[2] \in DIPTHONGS
        /\ phones[3] \in One(CONSONANTS)

\* the call on /tʃeɪn/ has returned
LiteralChainWitness == pc = "done" /\ arg = Chain

\* the scan is over (line 76 and after)
Scanned == pc \notin {"call", "scan"}

\* phone j is the pair of the characters i and i+1 of the transcription
PairAt(i, j) == starts[j] = i /\ Len(phones[j]) = 2

\* character i was taken as the second character of a pair that is a phone
SecondOfPair(i) == \E j \in DOMAIN phones : PairAt(i - 1, j)

\* C2: Biphone precedence.  Wherever two adjacent characters of the
\* transcription form a registered affricate, long vowel or diphthong, the
\* phones carry that pair as one phone, also when the first character of the
\* pair equals the final character of the transcription and when it was just
\* read as the second character of a pending pair (a pair whose first
\* character is already the second half of the phone before it is left out:
\* no list of phones can carry two overlapping pairs).
BiphonePrecedence ==
    Scanned =>
        \A i \in 1..(Len(ipa_all) - 1) :
            (is_biphone(ipa_all[i], ipa_all[i + 1]) /\ ~SecondOfPair(i))
                => \E j \in DOMAIN phones :
                       PairAt(i, j) /\ phones[j] = <<ipa_all[i], ipa_all[i + 1]>>

\* str has a t and a ʃ, or a d and a ʒ, as two units next to each other
SplitAffricate(str) ==
    \E q \in DOMAIN str :
        \/ StartsAt(str, q, <<"t", " ", "S">>)
        \/ StartsAt(str, q, <<"d", " ", "Z">>)

\* the transcription has t directly before ʃ, or d directly before ʒ
AdjacentAffricate ==
    \E i \in 1..(Len(ipa_all) - 1) : <<ipa_all[i], ipa_all[i + 1]>> \in AFFRICATES

\* C9: Affricate re-merge.  The string check_char returns never has 't ʃ' or
\* 'd ʒ' as two blank-separated units where the transcription had the two
\* characters next to each other.
AffricateRemerge ==
    (pc = "done" /\ AdjacentAffricate) => ~SplitAffricate(entry.ipa)

\* C4: Idempotence.  check_char on the string a first call returned gives that
\* string again, and no error when the first call gave none.
Idempotence ==
    pc = "done" =>
        LET again == check_char(entry.ipa)
        IN  again.ipa = entry.ipa /\ (~error => ~again.error)

\* the final item of ipa_all as the list holds it in the pass at idx: folded
\* only when the loop is at it
FinalNow == IF idx = Len(ipa_all) THEN Cur ELSE ipa_all[Len(ipa_all)]

\* one pass outside the pending state does what the guard says when "equal to
\* the final character" is read as eq
GuardStep(eq) ==
    /\ last_was_biphone' <=> (first_char_biphone(Cur) /\ ~eq)
    /\ eq => (phones' = Append(phones, <<Cur>>) /\ ~last_was_biphone')

\* C10 as stated: outside the pending state a character enters the pending
\* state iff it opens a biphone and its value differs from the value of the
\* final character, and a character whose value equals the final character's
\* is emitted as a single phone, also when it is ɚ.  A pass counts as
\* conforming when it conforms with the values compared as written (ɚ = ɚ) or
\* as folded (ə = ə).
ValueGuardAsStated ==
    [][(InLoop /\ ~last_was_biphone) =>
          \/ GuardStep(ipa_all[idx] = ipa_all[Len(ipa_all)])
          \/ GuardStep(Cur = Fold(ipa_all[Len(ipa_all)]))]_vars

\* C10: Value-based lookahead guard.  Outside the pending state a character
\* enters the pending state iff, folded, it opens a biphone and differs from
\* the final item as the list holds it in that pass (unfolded until the loop
\* is at it); a character that equals that item is emitted as a single phone
\* and opens no biphone.
ValueGuard ==
    [][(InLoop /\ ~last_was_biphone) => GuardStep(Cur = FinalNow)]_vars

\* the scan of a transcription whose first two characters form a biphone and
\* whose first character is also its last: the pair came out as two phones
ValueGuardWitness ==
    /\ Scanned
    /\ Len(ipa_all) >= 3
    /\ is_biphone(ipa_all[1], ipa_all[2])
    /\ ipa_all[1] = ipa_all[Len(ipa_all)]
    /\ Len(phones) >= 2
    /\ phones[1] = <<ipa_all[1]>>
    /\ phones[2] = <<ipa_all[2]>>

InventoryChars == UNION { { b[j] : j \in DOMAIN b } : b \in Inventory }

Recognised(ch) == ch \in InventoryChars \cup STRESS \cup REMOVE

\* C6 as stated: when the transcription holds a symbol that is no part of the
\* inventory, no stress marker and no removable mark, check_char returns
\* error = true and the entry's ipa is the normalized string.
UnknownSymbolAsStated ==
    (pc = "done" /\ \E i \in DOMAIN arg : ~Recognised(arg[i])) =>
        (error /\ entry.ipa = phones_str)

\* the cleaned transcription (lines 48-49) holds a symbol that, folded, is no
\* whitespace, no part of the inventory, no stress marker, no removable mark
HasUnknown(raw) ==
    \E i \in DOMAIN CleanIpa(raw) :
        LET ch == Fold(CleanIpa(raw)[i])
        IN  ~Recognised(ch) /\ ch \notin WHITESPACE

\* C6: when the transcription, cleaned of its enclosing slashes, dots and
\* (ɹ)/(ə) markers, holds a non-blank symbol that (ɚ read as ə) is no part of
\* the inventory, no stress marker and no removable mark, check_char does not
\* raise (last_c is bound when line 63 reads it, ipa_all has a last item when
\* line 70 reads it), returns error = true, and the entry's ipa is replaced by
\* the normalized string computed for that input.
UnknownSymbol ==
    /\ (pc = "scan" /\ last_was_biphone /\ HasUnknown(arg)) => last_c # NoChar
    /\ (InLoop /\ HasUnknown(arg)) => Len(ipa_all) >= 1
    /\ (pc = "done" /\ HasUnknown(arg)) => (error /\ entry.ipa = phones_str)

\* a call on a transcription with the digit 1 has returned error = true and
\* put a non-empty normalized string into the entry
UnknownSymbolWitness ==
    /\ pc = "done"
    /\ \E i \in DOMAIN arg : arg[i] = "1"
    /\ error
    /\ entry.ipa # << >>
    /\ entry.ipa # arg

Struck == <<"'", "s", "t", "r", "V", "k", "S", "@", "n">>
Strack == <<"'", "s", "t", "R", "6", "k", "S", "@", "n">>

\* C8 as stated: for the input ˈstrʌkʃən the output is 's t r ˈʌ k ʃ ə n'.
LiteralStressAsStated ==
    (pc = "done" /\ arg = Struck) =>
        entry.ipa = <<"s", " ", "t", " ", "r", " ", "'", "V", " ", "k", " ",
                      "S", " ", "@", " ", "n">>

\* C8: Literal stress scenario.  For the input ˈstɹɐkʃən (phones
\* 'ˈ s t ɹ ɐ k ʃ ə n') the output is 's t ɹ ˈɐ k ʃ ə n' with no error: the
\* three onset consonants precede the marker unchanged and the marker is
\* directly before the nucleus ɐ.  For ˈstrʌkʃən, whose r and ʌ are not in the
\* inventory, the output is 'ˈs ʌ k ʃ ə n' with error = true.
LiteralStress ==
    /\ (pc = "done" /\ arg = Strack) =>
          /\ ~error
          /\ phones = << <<"'">>, <<"s">>, <<"t">>, <<"R">>, <<"6">>, <<"k">>,
                         <<"S">>, <<"@">>, <<"n">> >>
          /\ entry.ipa = <<"s", " ", "t", " ", "R", " ", "'", "6", " ", "k",
                           " ", "S", " ", "@", " ", "n">>
    /\ (pc = "done" /\ arg = Struck) =>
          /\ error
          /\ entry.ipa = <<"'", "s", " ", "V", " ", "k", " ", "S", " ", "@",
                           " ", "n">>

\* the call on ˈstɹɐkʃən has returned
LiteralStressWitness == pc = "done" /\ arg = Strack

\* a consonant or affricate phone that is no stress marker
OnsetPhone(ph) == ph \in One(CONSONANTS \ STRESS) \cup AFFRICATES

\* the number of onset phones of l from position p on
RECURSIVE OnsetLen(_, _)
OnsetLen(l, p) ==
    IF p <= Len(l) /\ OnsetPhone(l[p]) THEN 1 + OnsetLen(l, p + 1) ELSE 0

MaxOnset == 4

\* l[p] is a stress marker followed by 0..4 onset phones and then a vowel
Relocatable(l, p) ==
    /\ l[p] \in One(STRESS)
    /\ OnsetLen(l, p + 1) <= MaxOnset
    /\ p + OnsetLen(l, p + 1) + 1 <= Len(l)
    /\ l[p + OnsetLen(l, p + 1) + 1] \in VOWELS

\* the units the claim asks for, from position p of the phones l on: the onset
\* phones of a relocatable marker, then the marker and the vowel as one unit;
\* every other phone where it was
RECURSIVE Relocated(_, _)
Relocated(l, p) ==
    IF p > Len(l) THEN << >>
    ELSE IF Relocatable(l, p)
         THEN LET k == OnsetLen(l, p + 1)
              IN  SubSeq(l, p + 1, p + k) \o << l[p] \o l[p + k + 1] >>
                      \o Relocated(l, p + k + 2)
         ELSE << l[p] >> \o Relocated(l, p + 1)

RECURSIVE Flat(_)
Flat(l) == IF l = << >> THEN << >> ELSE l[1] \o Flat(Tail(l))

\* C5: Cluster-length coverage.  For phones that are all tokens (members of
\* the inventory or stress markers) and in which a stress marker is followed
\* by exactly k onset phones (k in 0..4) and then a vowel, the output has those
\* k phones in their order, then the marker directly before that vowel with no
\* blank between them, and every other phone where it was.
ClusterCoverage ==
    (/\ pc = "done"
     /\ \A j \in DOMAIN phones : phones[j] \in Inventory
     /\ \E p \in DOMAIN phones : Relocatable(phones, p))
    => /\ RemoveChars(entry.ipa, {" "}) = Flat(Relocated(phones, 1))
       /\ \A q \in 1..(Len(entry.ipa) - 1) :
              entry.ipa[q] \in STRESS => entry.ipa[q + 1] # " "

\* the same for phones in which every stress marker is relocatable: the
\* output is exactly the units asked for, joined by single blanks
ClusterCoverageAllRelocatable ==
    (/\ pc = "done"
     /\ \A j \in DOMAIN phones : phones[j] \in Inventory
     /\ \A p \in DOMAIN phones :
            phones[p] \in One(STRESS) => Relocatable(phones, p))
    => entry.ipa = Join(Relocated(phones, 1))

\* the flag the scan of lines 58-74 leaves for the argument of the call
SoftError == Tokenize(CleanIpa(arg)).error

\* The statement of section 4.4: whenever the scan has set the flag, the check
\* of lines 89-96 on the final string fails too.  At pc = "final" the variable
\* error is still the flag of the scan alone.
ValidatorSupersetAsStated ==
    (pc = "final" /\ error) => ~final_check(phones_str)

\* C11: The flag check_char returns is the disjunction of the two signals:
\* it is true exactly when the scan set the soft-error flag or the final check
\* on the final string fails.  So every transcription the scan flagged is
\* returned with the flag true, also when the final check passes on what is
\* left of it (the pair the scan could not resolve is dropped from the phones).
ErrorIsEitherSignal ==
    /\ pc = "final" => error = SoftError
    /\ pc \in {"update", "done"} =>
          /\ error = (SoftError \/ ~final_check(phones_str))
          /\ SoftError => error

\* a flagged transcription whose final string has a unit to check and passes
\* the final check, returned with the flag true (t1ə gives ə)
ErrorIsEitherSignalWitness ==
    /\ pc = "done"
    /\ SoftError
    /\ SplitSet(RemoveChars(phones_str, STRESS)) # {}
    /\ final_check(phones_str)
    /\ error

\* line 59 over a whole string
FoldAll(str) == [i \in DOMAIN str |-> Fold(str[i])]

\* the character the scan holds back while a pair is pending
Pending == IF last_was_biphone THEN << last_c >> ELSE << >>

\* C12: Lossless tokenization.  While the scan has not set the soft-error
\* flag, the phones emitted so far, followed by the character held back for a
\* pending pair, are the characters read so far with each ɚ replaced by ə, in
\* their order; the loop never ends with a pair pending; so for an input on
\* which the flag is not set the concatenation of the phones is the cleaned
\* input string with each ɚ replaced by ə.
Lossless ==
    /\ (pc = "scan" /\ ~error) =>
          Flat(phones) \o Pending = FoldAll(SubSeq(CleanIpa(arg), 1, idx - 1))
    /\ (pc = "scan" /\ idx > Len(ipa_all)) => ~last_was_biphone
    /\ (Scanned /\ ~SoftError) =>
          /\ ~last_was_biphone
          /\ Flat(phones) = FoldAll(CleanIpa(arg))

\* an unflagged scan of at least three characters, one of them ɚ, that has
\* emitted a pair as one phone (tʃɚ gives tʃ ə)
LosslessWitness ==
    /\ pc = "done"
    /\ ~SoftError
    /\ Len(CleanIpa(arg)) >= 3
    /\ \E i \in DOMAIN arg : arg[i] = "@r"
    /\ \E j \in DOMAIN phones : Len(phones[j]) = 2
    /\ Flat(phones) = FoldAll(CleanIpa(arg))

-----------------------------------------------------------------------------
(* Properties of the per-entry loop *)

\* the items of the entry that carry a transcription, in their order
Bearing == SelectSeq(sounds_in, HasIpa)

\* the length of the longest prefix of l whose items check_char accepts
RECURSIVE ValidPrefixLen(_)
ValidPrefixLen(l) ==
    IF l = << >> \/ check_char(l[1].ipa).error THEN 0
    ELSE 1 + ValidPrefixLen(Tail(l))

\* C3: Abort-on-first-failure.  For an entry whose word passes the shape test,
\* the accepted list is exactly the normalized forms of the longest prefix of
\* its transcription-bearing items that all validate, in their order; the
\* loop stops at the first rejected item, and no later item is accepted, even
\* one that validates by itself.
AbortOnFirstFailure ==
    LET n == ValidPrefixLen(Bearing)
        accepted == [j \in 1..n |->
                        [ipa |-> check_char(Bearing[j].ipa).ipa,
                         tags |-> Bearing[j].tags]]
    IN  /\ mpc = "skipped" => ~WordShape(word)
        /\ mpc \in {"senses", "appended"} =>
              /\ WordShape(word)
              /\ sounds = accepted
              /\ n < Len(Bearing) => s_i = Bearing[n + 1].tags
        /\ mpc = "appended" =>
              entries = << [word |-> word, sounds |-> accepted] >>

\* the entry [tʃ, 1, tʃ] is appended with the first item alone
AbortOnFirstFailureWitness ==
    /\ mpc = "appended"
    /\ Len(sounds_in) = 3
    /\ sounds_in[1].ipa = <<"t", "S">>
    /\ sounds_in[2].ipa = <<"1">>
    /\ sounds_in[3].ipa = <<"t", "S">>
    /\ ~check_char(sounds_in[3].ipa).error
    /\ entries[1].sounds = << [ipa |-> <<"t", "S">>, tags |-> 1] >>

-----------------------------------------------------------------------------
(* Properties of the page-counting loop *)

\* how often x is an item of l
Count(l, x) == Cardinality({ n \in DOMAIN l : l[n] = x })

\* every page whose closing line was read has been given to the pool as
\* exactly one job
SubmittedOnce == \A p \in 1..articles : Count(jobs, p) = 1

\* a job that is no longer in active_jobs has had its result merged
RemovedAfterMerge ==
    \A n \in DOMAIN jobs :
        Count(active_jobs, jobs[n]) = 0 => merged[jobs[n]] >= 1

\* no result is merged twice, and when the loop is left and the pool is shut
\* down the result of every job has been merged
MergedOnce ==
    /\ \A n \in DOMAIN jobs : merged[jobs[n]] <= 1
    /\ ppc = "end" => \A n \in DOMAIN jobs : merged[jobs[n]] = 1

\* active_jobs never holds more than concurrent_tasks jobs
ActiveBounded == Len(active_jobs) <= concurrent_tasks

\* C13: Page-counting fan-out/fan-in loses no work.  Under every interleaving
\* of the workers' completions, every page whose closing line was read is
\* submitted to the pool as exactly one job, a job leaves active_jobs only
\* after its result was merged, every job's result is merged exactly once by
\* the time the loop is left, and active_jobs never holds more than
\* concurrent_tasks jobs.
NoWorkLost ==
    /\ SubmittedOnce
    /\ RemovedAfterMerge
    /\ MergedOnce
    /\ ActiveBounded

====
